---- MODULE Spec2Model ----
(***************************************************************************)
(* A model of scraper.py: parse_match_details (the extraction of format,   *)
(* stage, veto and map results from a match page), get_parsed_page (the    *)
(* page fetch) and update_results_json (load, scrape, merge, save).        *)
(*                                                                         *)
(* Text is a sequence of tokens: a token is a word, a white-space          *)
(* character (" " or "\n"), the bullet "*", or the score placeholder "-".  *)
(* The empty string is << >>.  A value that may be None is a sequence of   *)
(* length 0 (None) or 1 (the value).                                       *)
(***************************************************************************)
EXTENDS Naturals, Sequences, FiniteSets, TLC

VARIABLES
    file,           \* results.json: [state, content]
    results_data,   \* update_results_json: the loaded list of entries
    unique_urls,    \* update_results_json: URLs still to be scraped
    scraped_data,   \* update_results_json: url -> scraped record
    output,         \* updated_results.json: << >> while not written
    fetched,        \* url -> outcome of the request get_parsed_page made
    merges,         \* number of times the update loop has run over results_data
    pc,             \* position in update_results_json / parse_match_details
    soup,           \* parse_match_details: the parsed page (<< >> is None)
    url,            \* parse_match_details: the page's URL
    match_data,     \* parse_match_details: the record being built
    idx,            \* parse_match_details: position of the running loop
    veto_found      \* parse_match_details: veto_found

vars == << file, results_data, unique_urls, scraped_data, output, fetched,
           merges, pc, soup, url, match_data, idx, veto_found >>

runVars == << file, results_data, unique_urls, scraped_data, output, fetched, merges >>

(***************************************************************************)
(* Bounds                                                                  *)
(***************************************************************************)
MaxBoxes == 2
MaxHolders == 2
MaxEntries == 2
MaxMerges == 2

(***************************************************************************)
(* Text                                                                    *)
(***************************************************************************)
White == {" ", "\n"}

RECURSIVE LStripSet(_, _)
\* str.lstrip(chars): drop the leading tokens that are in chars
LStripSet(s, chars) ==
    IF s = << >> THEN s
    ELSE IF Head(s) \in chars THEN LStripSet(Tail(s), chars)
    ELSE s

RECURSIVE RStripSet(_, _)
RStripSet(s, chars) ==
    IF s = << >> THEN s
    ELSE IF s[Len(s)] \in chars THEN RStripSet(SubSeq(s, 1, Len(s) - 1), chars)
    ELSE s

\* str.strip()
Strip(s) == RStripSet(LStripSet(s, White), White)

RECURSIVE SplitLines(_)
\* str.split("\n"): the pieces between the line breaks ("" gives [""])
SplitLines(s) ==
    IF \A i \in 1..Len(s) : s[i] # "\n" THEN << s >>
    ELSE LET k == CHOOSE i \in 1..Len(s) :
                      s[i] = "\n" /\ \A j \in 1..(i - 1) : s[j] # "\n"
         IN  << SubSeq(s, 1, k - 1) >> \o SplitLines(SubSeq(s, k + 1, Len(s)))

RECURSIVE StripNonEmpty(_)
\* [t.strip() for t in texts if t.strip()]
StripNonEmpty(texts) ==
    IF texts = << >> THEN << >>
    ELSE IF Strip(Head(texts)) = << >> THEN StripNonEmpty(Tail(texts))
    ELSE << Strip(Head(texts)) >> \o StripNonEmpty(Tail(texts))

\* str.lower() on a token
Lower(t) ==
    CASE t = "PICKED"  -> "picked"
      [] t = "Removed" -> "removed"
      [] OTHER         -> t

Keywords == {"removed", "picked", "was left over"}

\* any(keyword in text.lower() for keyword in [...])
ContainsKeyword(text) == \E i \in 1..Len(text) : Lower(text[i]) \in Keywords

NumberDot == {"1.", "2.", "3."}

\* re.compile(r"\d+\.\s*(?:removed|picked|was left over)", re.I).search(text)
MatchesVetoPattern(text) ==
    \E i \in 1..Len(text) : \E j \in (i + 1)..Len(text) :
        /\ text[i] \in NumberDot
        /\ Lower(text[j]) \in Keywords
        /\ \A k \in (i + 1)..(j - 1) : text[k] \in White

RECURSIVE Concat(_)
Concat(texts) == IF texts = << >> THEN << >> ELSE Head(texts) \o Concat(Tail(texts))

(***************************************************************************)
(* The page.  A page is [container, boxes, loose, holders]:                *)
(*   container  whether the page has the div "col-6 col-7-small";          *)
(*   boxes      the "standard-box veto-box" divs, each the sequence of its *)
(*              divs of class "padding", in document order; such a div is  *)
(*              [pre, own, steps]: pre says its class attribute is exactly *)
(*              "padding preformatted-text", own is its own text and steps *)
(*              are the texts of the divs inside it;                       *)
(*   loose      the texts of the other single-string divs of the page;     *)
(*   holders    the "mapholder" divs.                                      *)
(***************************************************************************)
Some(v) == << v >>
None == << >>

\* tag.text
DivText(d) == d.own \o Concat(d.steps)

RECURSIVE FindPre(_)
\* box.find("div", class_="padding preformatted-text")
FindPre(box) ==
    IF box = << >> THEN None
    ELSE IF Head(box).pre THEN Some(Head(box))
    ELSE FindPre(Tail(box))

\* box.find("div", class_="padding"): the first div that has the class
FindPadding(box) == IF box = << >> THEN None ELSE Some(Head(box))

\* the texts of the divs in and of d that have a .string (a single string inside)
DivStrings(d) ==
    (IF d.steps = << >>
        THEN (IF d.own # << >> THEN << d.own >> ELSE << >>)
        ELSE IF d.own = << >> /\ Len(d.steps) = 1 /\ d.steps[1] # << >>
                THEN << d.steps[1] >>
                ELSE << >>)
    \o SelectSeq(d.steps, LAMBDA t : t # << >>)

RECURSIVE BoxStrings(_)
BoxStrings(box) ==
    IF box = << >> THEN << >> ELSE DivStrings(Head(box)) \o BoxStrings(Tail(box))

RECURSIVE AllStrings(_)
AllStrings(boxes) ==
    IF boxes = << >> THEN << >> ELSE BoxStrings(Head(boxes)) \o AllStrings(Tail(boxes))

EmptyRecord(u) ==
    [url |-> u, format |-> << >>, stage |-> << >>, veto |-> << >>, maps |-> << >>]

\* [line.strip() for line in text.split("\n") if line.strip()]
Lines(text) == StripNonEmpty(SplitLines(text))

\* variant of FormatStep: a box is skipped once format is set
FormatStepFirstWins(md, box) ==
    LET ft == FindPre(box) IN
    IF ft = None \/ md.format # << >> THEN md
    ELSE LET lines == Lines(DivText(ft[1])) IN
         [md EXCEPT !.format = IF lines # << >> THEN lines[1] ELSE << >>,
                    !.stage  = IF Len(lines) > 1
                                  THEN Strip(LStripSet(lines[2], {"*", " "}))
                                  ELSE @]

\* lines 64-72: the body of the format/stage loop, for one box
FormatStep(md, box) ==
    LET ft == FindPre(box) IN
    IF ft = None THEN md
    ELSE LET lines == Lines(DivText(ft[1])) IN
         [md EXCEPT !.format = IF lines # << >> THEN lines[1] ELSE << >>,
                    !.stage  = IF Len(lines) > 1
                                  THEN Strip(LStripSet(lines[2], {"*", " "}))
                                  ELSE @]

\* lines 77-80: the box has a padding div whose text holds a keyword
VetoQualifies(box) ==
    /\ FindPadding(box) # None
    /\ ContainsKeyword(DivText(FindPadding(box)[1]))

\* lines 81-82: the steps of the box's padding div
VetoEntries(box) == StripNonEmpty(FindPadding(box)[1].steps)

\* lines 91-93: the fallback scan of the whole container
FallbackVeto(page) ==
    StripNonEmpty(SelectSeq(AllStrings(page.boxes) \o page.loose, MatchesVetoPattern))

(***************************************************************************)
(* A map holder is [mapname, results]; results is [left, right, half]; a   *)
(* team fragment is [won, name, score].  mapname, results, left, right,    *)
(* half, name and score may each be None.                                  *)
(***************************************************************************)
\* lines 112-114, 118-120: .text and .get on a fragment that is None raise
TeamRaises(t) ==
    IF t = None THEN TRUE
    ELSE IF t[1].name = None THEN TRUE
    ELSE t[1].score = None

MapRaises(h) ==
    /\ h.results # None
    /\ (IF TeamRaises(h.results[1].left) THEN TRUE ELSE TeamRaises(h.results[1].right))

\* lines 114, 120
WonStatus(t) == IF t.won THEN "won" ELSE "lost"

\* variant of NotPlayed: one placeholder score is enough
NotPlayedEither(score1, score2, half) ==
    (score1 = << "-" >> \/ score2 = << "-" >>) /\ half = << >>

\* line 127
NotPlayed(score1, score2, half) ==
    score1 = << "-" >> /\ score2 = << "-" >> /\ half = << >>

\* variant of MapStatus: the map's status follows the teams' override
MapStatusByScore(score1, score2, half) ==
    IF score1 = << "-" >> /\ score2 = << "-" >> /\ half = << >>
        THEN "not_played" ELSE "played"

\* line 149
MapStatus(score1, score2, half) == IF half # << >> THEN "played" ELSE "not_played"

\* lines 102-153: the record of a map holder that has results and does not raise
MapData(h) ==
    LET r      == h.results[1]
        team1  == r.left[1]
        team2  == r.right[1]
        score1 == Strip(team1.score[1])
        score2 == Strip(team2.score[1])
        half   == IF r.half # None THEN Strip(r.half[1]) ELSE << >>
        np     == NotPlayed(score1, score2, half)
    IN  [map    |-> IF h.mapname # None THEN Strip(h.mapname[1]) ELSE << "Unknown" >>,
         team1  |-> [name   |-> Strip(team1.name[1]),
                     score  |-> score1,
                     status |-> IF np THEN "not_played" ELSE WonStatus(team1)],
         team2  |-> [name   |-> Strip(team2.name[1]),
                     score  |-> score2,
                     status |-> IF np THEN "not_played" ELSE WonStatus(team2)],
         half_scores |-> half,
         status |-> MapStatus(score1, score2, half)]

(***************************************************************************)
(* The pages the model reads                                               *)
(***************************************************************************)
FormatTexts ==
    { << >>,
      << "bo3" >>,
      << " ", "bo1", "\n", "\n", "*", " ", "final", " " >>,
      << "bo5", "\n", "*", " " >>,
      << "bo2", "\n", "seed", " ", "picked" >> }

FormatDivs == { [pre |-> TRUE, own |-> t, steps |-> << >>] : t \in FormatTexts }

StepA == << " ", "NAVI", " ", "Removed", " ", "Nuke", " " >>
StepB == << "2.", " ", "PICKED", " ", "Mirage" >>
StepC == << "3.", "removed", " ", "Dust2" >>
Blank == << " " >>

VetoDivs ==
    { [pre |-> FALSE, own |-> << >>, steps |-> << StepA, Blank, StepB >>],
      [pre |-> FALSE, own |-> << "Inferno", " ", "was left over" >>, steps |-> << >>],
      [pre |-> FALSE, own |-> << >>, steps |-> << << "info" >> >>],
      [pre |-> FALSE, own |-> << >>, steps |-> << StepC >>] }

InfoDiv == [pre |-> FALSE, own |-> << >>, steps |-> << << "info" >> >>]

Boxes ==
    { << >> }
    \cup { << d >> : d \in FormatDivs \cup VetoDivs }
    \cup { << InfoDiv, [pre |-> FALSE, own |-> << >>, steps |-> << StepB >>] >>,
           << InfoDiv, [pre |-> TRUE, own |-> << "bo3", "\n", "group" >>, steps |-> << >>] >> }

SeqsUpTo(S, n) == UNION { [1..k -> S] : k \in 0..n }

Looses == { << >>, << << "x" >>, << " ", "1.", " ", "picked", " ", "Train", " " >> >> }

Name1 == << " ", "NAVI", "\n" >>
Name2 == << "G2" >>

Teams1 ==
    { [won |-> w, name |-> Some(Name1), score |-> Some(sc)] :
        w \in BOOLEAN, sc \in { << " ", "-", " " >>, << "16" >> } }

Teams2 ==
    { [won |-> w, name |-> Some(Name2), score |-> Some(sc)] :
        w \in BOOLEAN, sc \in { << "-" >>, << "9" >> } }

FullHolders ==
    { [mapname |-> Some(<< " ", "Nuke" >>),
       results |-> Some([left |-> Some(t1), right |-> Some(t2), half |-> hf])] :
        t1 \in Teams1, t2 \in Teams2, hf \in { None, Some(<< "\n", "(8:7)", " " >>) } }

Won16 == [won |-> TRUE, name |-> Some(Name1), score |-> Some(<< "16" >>)]
Lost9 == [won |-> FALSE, name |-> Some(Name2), score |-> Some(<< "9" >>)]
Dash1 == [won |-> FALSE, name |-> Some(Name1), score |-> Some(<< "-" >>)]
Dash2 == [won |-> FALSE, name |-> Some(Name2), score |-> Some(<< "-" >>)]

PartialHolders ==
    { [mapname |-> Some(<< "Mirage" >>), results |-> None],
      [mapname |-> None, results |-> None],
      [mapname |-> None,
       results |-> Some([left |-> Some(Won16), right |-> Some(Lost9),
                         half |-> Some(<< "(9:6)" >>)])],
      [mapname |-> Some(<< "Dust2" >>),
       results |-> Some([left |-> Some(Dash1), right |-> Some(Dash2),
                         half |-> Some(Blank)])],
      [mapname |-> Some(<< "Dust2" >>),
       results |-> Some([left |-> Some(Won16), right |-> Some(Lost9),
                         half |-> Some(Blank)])],
      [mapname |-> Some(<< "Train" >>),
       results |-> Some([left |-> None, right |-> Some(Lost9), half |-> None])],
      [mapname |-> Some(<< "Train" >>),
       results |-> Some([left |-> Some(Won16), right |-> None, half |-> None])],
      [mapname |-> Some(<< "Train" >>),
       results |-> Some([left |-> Some([Won16 EXCEPT !.name = None]),
                         right |-> Some(Lost9), half |-> None])],
      [mapname |-> Some(<< "Train" >>),
       results |-> Some([left |-> Some(Won16),
                         right |-> Some([Lost9 EXCEPT !.score = None]),
                         half |-> None])] }

Holders == FullHolders \cup PartialHolders

PlayedHolder ==
    [mapname |-> Some(<< "Nuke" >>),
     results |-> Some([left |-> Some(Won16), right |-> Some(Lost9),
                       half |-> Some(<< "(8:7)" >>)])]

NoLeftHolder ==
    [mapname |-> Some(<< "Train" >>),
     results |-> Some([left |-> None, right |-> Some(Lost9), half |-> None])]

\* pages that vary the boxes
MetaPages ==
    { [container |-> TRUE, boxes |-> bs, loose |-> l, holders |-> << >>] :
        bs \in SeqsUpTo(Boxes, MaxBoxes), l \in Looses }

TypicalBoxes ==
    << << [pre |-> TRUE, own |-> << "bo3", "\n", "*", " ", "final" >>, steps |-> << >>] >>,
       << [pre |-> FALSE, own |-> << >>, steps |-> << StepA, StepB >>] >> >>

\* pages that vary the map holders
MapPages ==
    { [container |-> TRUE, boxes |-> << >>, loose |-> << >>, holders |-> hs] :
        hs \in SeqsUpTo(Holders, MaxHolders) }

\* pages without the container (an error page, another layout)
BarePages ==
    { [container |-> FALSE, boxes |-> bs, loose |-> l, holders |-> hs] :
        bs \in { << >>, TypicalBoxes }, l \in Looses,
        hs \in { << >>, << PlayedHolder >>, << NoLeftHolder >> } }

Pages == MetaPages \cup MapPages \cup BarePages

\* the pages the fetch of a run returns
RunPages ==
    { [container |-> TRUE, boxes |-> TypicalBoxes, loose |-> << >>,
       holders |-> << PlayedHolder, [mapname |-> Some(<< "Mirage" >>), results |-> None] >>],
      [container |-> TRUE, boxes |-> << >>, loose |-> << >>,
       holders |-> << NoLeftHolder >>],
      [container |-> FALSE, boxes |-> TypicalBoxes, loose |-> << >>,
       holders |-> << PlayedHolder >>] }

(***************************************************************************)
(* parse_match_details                                                     *)
(***************************************************************************)
page == soup[1]

\* variant of Locate: the extractors run without the container
LocateAnyway ==
    /\ pc = "p_locate"
    /\ match_data' = EmptyRecord(url)
    /\ idx' = 1
    /\ pc' = "p_format"
    /\ UNCHANGED << runVars, soup, url, veto_found >>

\* lines 50-56
Locate ==
    /\ pc = "p_locate"
    /\ match_data' = EmptyRecord(url)
    /\ idx' = 1
    /\ pc' = IF page.container THEN "p_format" ELSE "p_return"
    /\ UNCHANGED << runVars, soup, url, veto_found >>

\* lines 64-72, one box
FormatIter ==
    /\ pc = "p_format"
    /\ idx <= Len(page.boxes)
    /\ match_data' = FormatStep(match_data, page.boxes[idx])
    /\ idx' = idx + 1
    /\ UNCHANGED << runVars, pc, soup, url, veto_found >>

\* line 75
FormatDone ==
    /\ pc = "p_format"
    /\ idx > Len(page.boxes)
    /\ veto_found' = FALSE
    /\ idx' = 1
    /\ pc' = "p_veto"
    /\ UNCHANGED << runVars, soup, url, match_data >>

\* lines 76-87, a box that does not qualify
VetoSkip ==
    /\ pc = "p_veto"
    /\ idx <= Len(page.boxes)
    /\ ~VetoQualifies(page.boxes[idx])
    /\ idx' = idx + 1
    /\ UNCHANGED << runVars, pc, soup, url, match_data, veto_found >>

\* variant of VetoTake: the loop goes on after a qualifying box
VetoTakeNoBreak ==
    /\ pc = "p_veto"
    /\ idx <= Len(page.boxes)
    /\ VetoQualifies(page.boxes[idx])
    /\ match_data' = [match_data EXCEPT !.veto = VetoEntries(page.boxes[idx])]
    /\ veto_found' = TRUE
    /\ idx' = idx + 1
    /\ UNCHANGED << runVars, pc, soup, url >>

\* lines 80-85 and 89, a box that qualifies: its entries, then break
VetoTake ==
    /\ pc = "p_veto"
    /\ idx <= Len(page.boxes)
    /\ VetoQualifies(page.boxes[idx])
    /\ match_data' = [match_data EXCEPT !.veto = VetoEntries(page.boxes[idx])]
    /\ veto_found' = TRUE
    /\ idx' = 1
    /\ pc' = "p_maps"
    /\ UNCHANGED << runVars, soup, url >>

\* lines 89-96: no box qualified, the fallback
VetoFallback ==
    /\ pc = "p_veto"
    /\ idx > Len(page.boxes)
    /\ ~veto_found
    /\ match_data' = IF FallbackVeto(page) # << >>
                        THEN [match_data EXCEPT !.veto = FallbackVeto(page)]
                        ELSE match_data
    /\ idx' = 1
    /\ pc' = "p_maps"
    /\ UNCHANGED << runVars, soup, url, veto_found >>

\* lines 101-109, 156-157: a map holder without results
MapSkip ==
    /\ pc = "p_maps"
    /\ idx <= Len(page.holders)
    /\ page.holders[idx].results = None
    /\ idx' = idx + 1
    /\ UNCHANGED << runVars, pc, soup, url, match_data, veto_found >>

\* lines 101-154: a map holder with results
MapAppend ==
    /\ pc = "p_maps"
    /\ idx <= Len(page.holders)
    /\ page.holders[idx].results # None
    /\ ~MapRaises(page.holders[idx])
    /\ match_data' = [match_data EXCEPT !.maps = Append(@, MapData(page.holders[idx]))]
    /\ idx' = idx + 1
    /\ UNCHANGED << runVars, pc, soup, url, veto_found >>

\* lines 112-120: AttributeError on a fragment that is None
MapRaise ==
    /\ pc = "p_maps"
    /\ idx <= Len(page.holders)
    /\ MapRaises(page.holders[idx])
    /\ pc' = "raised"
    /\ UNCHANGED << runVars, soup, url, match_data, idx, veto_found >>

\* line 159
MapsDone ==
    /\ pc = "p_maps"
    /\ idx > Len(page.holders)
    /\ pc' = "p_return"
    /\ UNCHANGED << runVars, soup, url, match_data, idx, veto_found >>

Parse ==
    \/ Locate
    \/ FormatIter
    \/ FormatDone
    \/ VetoSkip
    \/ VetoTake
    \/ VetoFallback
    \/ MapSkip
    \/ MapAppend
    \/ MapRaise
    \/ MapsDone

NoFile == [state |-> "missing", content |-> << >>]

\* a call of parse_match_details on a page
InitParse ==
    /\ file = NoFile
    /\ results_data = << >>
    /\ unique_urls = {}
    /\ scraped_data = << >>
    /\ output = None
    /\ fetched = << >>
    /\ merges = 0
    /\ pc = "p_locate"
    /\ soup \in { Some(p) : p \in Pages }
    /\ url = "u1"
    /\ match_data = EmptyRecord("")
    /\ idx = 1
    /\ veto_found = FALSE

SpecParse == InitParse /\ [][Parse]_vars

(***************************************************************************)
(* update_results_json                                                     *)
(***************************************************************************)
URLs == {"u1", "u2"}

OldFields ==
    [format |-> << "old" >>, stage |-> << "old" >>,
     veto |-> << << "old" >> >>, maps |-> << >>]

\* the entries of results.json: a url, another field, and perhaps the four
\* fields of an earlier run
Entries ==
    { [url |-> u, event |-> e] : u \in URLs, e \in {"e1", "e2"} }
    \cup { [url |-> u, event |-> "e1"] @@ OldFields : u \in URLs }

Datasets == SeqsUpTo(Entries, MaxEntries)

Files ==
    { [state |-> st, content |-> << >>] : st \in {"missing", "corrupt"} }
    \cup { [state |-> "ok", content |-> d] : d \in Datasets }

Four == {"format", "stage", "veto", "maps"}

\* variant of UpdateEntry: the entry is replaced by the scraped record
UpdateEntryWhole(match, sd) ==
    IF match.url \in DOMAIN sd THEN sd[match.url] ELSE match

\* variant of UpdateEntry: veto is extended, not replaced
UpdateEntryExtend(match, sd) ==
    IF match.url \in DOMAIN sd
        THEN [k \in DOMAIN match \cup Four |->
                 IF k = "veto" /\ k \in DOMAIN match THEN match[k] \o sd[match.url][k]
                 ELSE IF k \in Four THEN sd[match.url][k]
                 ELSE match[k]]
        ELSE match

\* lines 194-201: one entry
UpdateEntry(match, sd) ==
    IF match.url \in DOMAIN sd
        THEN [k \in DOMAIN match \cup Four |->
                 IF k \in Four THEN sd[match.url][k] ELSE match[k]]
        ELSE match

\* lines 193-201
Merge(rd, sd) == [i \in DOMAIN rd |-> UpdateEntry(rd[i], sd)]

\* variant of FailedFetchData: the URL gets no record
FailedFetchOmitted(sd, u) == sd

\* lines 188-189
FailedFetchData(sd, u) == (u :> EmptyRecord(u)) @@ sd

\* variant of LoadFailed: the run goes on with an empty dataset
LoadFailedGoesOn ==
    /\ pc = "load"
    /\ file.state # "ok"
    /\ results_data' = << >>
    /\ pc' = "scrape"
    /\ UNCHANGED << file, unique_urls, scraped_data, output, fetched,
                    merges, soup, url, match_data, idx, veto_found >>

\* lines 166-171: results.json is missing or is not JSON
LoadFailed ==
    /\ pc = "load"
    /\ file.state # "ok"
    /\ pc' = "halted"
    /\ UNCHANGED << file, results_data, unique_urls, scraped_data, output, fetched,
                    merges, soup, url, match_data, idx, veto_found >>

\* lines 164-165, 174-178
Load ==
    /\ pc = "load"
    /\ file.state = "ok"
    /\ results_data' = file.content
    /\ unique_urls' = { file.content[i].url : i \in DOMAIN file.content }
    /\ scraped_data' = << >>
    /\ pc' = "scrape"
    /\ UNCHANGED << file, output, fetched, merges, soup, url, match_data, idx, veto_found >>

\* lines 36-47, 182-183, 187-189: the request fails, or the answer's status is not "ok"
FetchFailed ==
    /\ pc = "scrape"
    /\ \E u \in unique_urls : \E o \in {"request_error", "status_not_ok"} :
          /\ fetched' = (u :> o) @@ fetched
          /\ scraped_data' = FailedFetchData(scraped_data, u)
          /\ unique_urls' = unique_urls \ {u}
    /\ UNCHANGED << file, results_data, output, merges, pc, soup, url, match_data,
                    idx, veto_found >>

\* lines 39-40: status "ok" and no "solution": KeyError
FetchMalformed ==
    /\ pc = "scrape"
    /\ \E u \in unique_urls :
          /\ fetched' = (u :> "no_solution") @@ fetched
          /\ unique_urls' = unique_urls \ {u}
    /\ pc' = "key_error"
    /\ UNCHANGED << file, results_data, scraped_data, output, merges, soup, url,
                    match_data, idx, veto_found >>

\* lines 36-42, 182-184: the page is fetched and parse_match_details is called
FetchOk ==
    /\ pc = "scrape"
    /\ \E u \in unique_urls : \E p \in RunPages :
          /\ fetched' = (u :> "ok") @@ fetched
          /\ unique_urls' = unique_urls \ {u}
          /\ url' = u
          /\ soup' = Some(p)
    /\ pc' = "p_locate"
    /\ UNCHANGED << file, results_data, scraped_data, output, merges, match_data,
                    idx, veto_found >>

\* lines 184-186
StoreScraped ==
    /\ pc = "p_return"
    /\ scraped_data' = (url :> match_data) @@ scraped_data
    /\ pc' = "scrape"
    /\ UNCHANGED << file, results_data, unique_urls, output, fetched, merges, soup,
                    url, match_data, idx, veto_found >>

\* line 181: the loop over unique_urls ends
ScrapeDone ==
    /\ pc = "scrape"
    /\ unique_urls = {}
    /\ pc' = "merge"
    /\ UNCHANGED << file, results_data, unique_urls, scraped_data, output, fetched,
                    merges, soup, url, match_data, idx, veto_found >>

\* lines 193-201
UpdateEntries ==
    /\ pc = "merge"
    /\ results_data' = Merge(results_data, scraped_data)
    /\ merges' = merges + 1
    /\ pc' = "write"
    /\ UNCHANGED << file, unique_urls, scraped_data, output, fetched, soup, url,
                    match_data, idx, veto_found >>

\* lines 204-207
SaveResults ==
    /\ pc = "write"
    /\ output' = Some(results_data)
    /\ pc' = "done"
    /\ UNCHANGED << file, results_data, unique_urls, scraped_data, fetched, merges,
                    soup, url, match_data, idx, veto_found >>

Init ==
    /\ file \in Files
    /\ results_data = << >>
    /\ unique_urls = {}
    /\ scraped_data = << >>
    /\ output = None
    /\ fetched = << >>
    /\ merges = 0
    /\ pc = "load"
    /\ soup = None
    /\ url = ""
    /\ match_data = EmptyRecord("")
    /\ idx = 1
    /\ veto_found = FALSE

Next ==
    \/ LoadFailed
    \/ Load
    \/ FetchFailed
    \/ FetchMalformed
    \/ FetchOk
    \/ Parse
    \/ StoreScraped
    \/ ScrapeDone
    \/ UpdateEntries
    \/ SaveResults

Spec == Init /\ [][Next]_vars

(***************************************************************************)
(* The update loop of lines 193-201 on its own: a dataset and a batch of   *)
(* scraped records keyed by URL, the loop run once or again on its result. *)
(***************************************************************************)
Payloads ==
    { [format |-> << >>, stage |-> << >>, veto |-> << >>, maps |-> << >>],
      [format |-> << "bo3" >>, stage |-> << "final" >>, veto |-> << StepB >>,
       maps |-> << MapData(PlayedHolder) >>] }

Batches ==
    UNION { { [u \in S |-> [url |-> u] @@ f[u]] : f \in [S -> Payloads] } :
            S \in SUBSET URLs }

\* lines 193-201, run again with the same scraped_data
Remerge ==
    /\ pc = "write"
    /\ merges < MaxMerges
    /\ results_data' = Merge(results_data, scraped_data)
    /\ merges' = merges + 1
    /\ UNCHANGED << file, unique_urls, scraped_data, output, fetched, pc, soup, url,
                    match_data, idx, veto_found >>

InitMerge ==
    /\ file \in { f \in Files : f.state = "ok" }
    /\ results_data = file.content
    /\ unique_urls = {}
    /\ scraped_data \in Batches
    /\ output = None
    /\ fetched = << >>
    /\ merges = 0
    /\ pc = "merge"
    /\ soup = None
    /\ url = ""
    /\ match_data = EmptyRecord("")
    /\ idx = 1
    /\ veto_found = FALSE

NextMerge ==
    \/ UpdateEntries
    \/ Remerge
    \/ SaveResults

SpecMerge == InitMerge /\ [][NextMerge]_vars

(***************************************************************************)
(* Properties of parse_match_details (checked under SpecParse)             *)
(***************************************************************************)
Parsing == soup # None /\ pc \in {"p_format", "p_veto", "p_maps", "p_return", "raised"}

\* the boxes the format/stage loop has gone through
FormatSeen ==
    IF pc = "p_format" THEN SubSeq(page.boxes, 1, idx - 1)
    ELSE IF page.container THEN page.boxes
    ELSE << >>

HasFormatText(box) == FindPre(box) # None

FormatLines(box) == Lines(DivText(FindPre(box)[1]))

HasTwoLines(box) == HasFormatText(box) /\ Len(FormatLines(box)) > 1

\* the last index of boxes that satisfies P, 0 if none does
LastWhere(boxes, P(_)) ==
    LET S == { i \in 1..Len(boxes) : P(boxes[i]) }
    IN  IF S = {} THEN 0 ELSE CHOOSE i \in S : \A j \in S : j <= i

\* the first index of boxes that satisfies P, 0 if none does
FirstWhere(boxes, P(_)) ==
    LET S == { i \in 1..Len(boxes) : P(boxes[i]) }
    IN  IF S = {} THEN 0 ELSE CHOOSE i \in S : \A j \in S : i <= j

\* C1 as stated: once format (or stage) has been set by an earlier block, no
\* later block of the format/stage loop overwrites it.
C1_FirstBlockWins ==
    [][ (pc = "p_format" /\ pc' = "p_format")
           => /\ (match_data.format # << >> => match_data'.format = match_data.format)
              /\ (match_data.stage # << >> => match_data'.stage = match_data.stage) ]_vars

\* C1 amended: format is the first non-empty line ("" if there is none) of the
\* LAST block that has a format text, and stage is the second non-empty line,
\* bullets stripped, of the LAST block whose format text has two or more
\* non-empty lines; both are "" when there is no such block.
C1_LastBlockWins ==
    Parsing =>
        LET f == LastWhere(FormatSeen, HasFormatText)
            g == LastWhere(FormatSeen, HasTwoLines)
        IN  /\ match_data.format =
                  (IF f = 0 THEN << >>
                   ELSE IF FormatLines(FormatSeen[f]) = << >> THEN << >>
                   ELSE FormatLines(FormatSeen[f])[1])
            /\ match_data.stage =
                  (IF g = 0 THEN << >>
                   ELSE Strip(LStripSet(FormatLines(FormatSeen[g])[2], {"*", " "})))

\* two blocks with a format text: format is the second block's, stage the first's
C1_Witness ==
    /\ pc = "p_return"
    /\ Len(page.boxes) = 2
    /\ HasTwoLines(page.boxes[1])
    /\ HasFormatText(page.boxes[2])
    /\ match_data.format = << "bo3" >>
    /\ match_data.stage = << "final" >>

\* C2 as stated: on a page that has the container, parse_match_details never
\* raises, whatever is absent inside a map holder (and so the batch goes on).
C2_NeverRaises == (soup # None /\ page.container) => pc # "raised"

\* C4: when some box qualifies for the primary veto rule, veto is exactly the
\* trimmed non-empty steps of the first qualifying box; the fallback scan and
\* the later boxes add nothing.
C4_FirstQualifyingBox ==
    (Parsing /\ page.container) =>
        LET q == FirstWhere(page.boxes, VetoQualifies) IN
        /\ (pc \in {"p_maps", "p_return", "raised"} => (veto_found <=> q # 0))
        /\ veto_found =>
              match_data.veto = StripNonEmpty(page.boxes[q][1].steps)

\* the first qualifying box has no steps, a later box and the fallback scan do
C4_Witness ==
    /\ pc = "p_return"
    /\ Len(page.boxes) = 2
    /\ VetoQualifies(page.boxes[1])
    /\ VetoQualifies(page.boxes[2])
    /\ StripNonEmpty(page.boxes[2][1].steps) # << >>
    /\ FallbackVeto(page) # << >>
    /\ match_data.veto = << >>

\* the map holders the map loop has gone through that have results, in order
Emitted ==
    IF page.container
        THEN SelectSeq(SubSeq(page.holders, 1, idx - 1), LAMBDA h : h.results # None)
        ELSE << >>

RawDash(t) == Strip(t.score[1]) = << "-" >>

RawHalf(h) ==
    IF h.results[1].half = None THEN << >> ELSE Strip(h.results[1].half[1])

InMaps == soup # None /\ pc \in {"p_maps", "p_return", "raised"}

\* C5: in every emitted map, both team statuses are "not_played" exactly when
\* both raw scores are "-" and half_scores is empty; otherwise each team's
\* status is "won" if its fragment carries the won marker and "lost" if not.
C5_NotPlayedJointly ==
    InMaps =>
        /\ Len(match_data.maps) = Len(Emitted)
        /\ \A j \in 1..Len(match_data.maps) :
              LET m  == match_data.maps[j]
                  t1 == Emitted[j].results[1].left[1]
                  t2 == Emitted[j].results[1].right[1]
              IN  IF RawDash(t1) /\ RawDash(t2) /\ RawHalf(Emitted[j]) = << >>
                     THEN m.team1.status = "not_played" /\ m.team2.status = "not_played"
                     ELSE /\ m.team1.status = (IF t1.won THEN "won" ELSE "lost")
                          /\ m.team2.status = (IF t2.won THEN "won" ELSE "lost")

\* one map not played, and one with a single "-" score whose teams keep won/lost
C5_Witness ==
    /\ pc = "p_return"
    /\ Len(match_data.maps) = 2
    /\ match_data.maps[1].team1.status = "not_played"
    /\ match_data.maps[1].team2.status = "not_played"
    /\ match_data.maps[2].team1.score = << "-" >>
    /\ match_data.maps[2].team2.score = << "9" >>
    /\ match_data.maps[2].half_scores = << >>
    /\ match_data.maps[2].team1.status = "won"
    /\ match_data.maps[2].team2.status = "lost"

\* C6: in every emitted map, status is "played" exactly when the trimmed
\* half-score text is non-empty, whatever the scores and the team statuses.
C6_StatusFromHalfScores ==
    InMaps =>
        \A j \in 1..Len(match_data.maps) :
            /\ j <= Len(Emitted)
            /\ match_data.maps[j].half_scores = RawHalf(Emitted[j])
            /\ match_data.maps[j].status =
                  (IF RawHalf(Emitted[j]) # << >> THEN "played" ELSE "not_played")

\* a final score without half-score text: not_played, the teams keep won/lost
C6_Witness ==
    /\ pc = "p_return"
    /\ Len(match_data.maps) > 0
    /\ match_data.maps[1].team1.score = << "16" >>
    /\ match_data.maps[1].team2.score = << "9" >>
    /\ match_data.maps[1].half_scores = << >>
    /\ match_data.maps[1].status = "not_played"
    /\ match_data.maps[1].team1.status = "won"
    /\ match_data.maps[1].team2.status = "lost"

\* C10: on a page without the container the record returned is the empty one
\* for the url, and no extractor has run.
C10_NoContainer ==
    (soup # None /\ ~page.container) =>
        /\ pc \in {"p_locate", "p_return"}
        /\ (pc = "p_return" => match_data = EmptyRecord(url) /\ idx = 1 /\ ~veto_found)

\* a page without the container that does have boxes and map holders
C10_Witness ==
    /\ pc = "p_return"
    /\ ~page.container
    /\ page.boxes # << >>
    /\ page.holders # << >>
    /\ page.loose # << >>

(***************************************************************************)
(* Properties of update_results_json (checked under Spec)                  *)
(***************************************************************************)
FetchFailures == {"request_error", "status_not_ok"}

EmptyFields(e) ==
    /\ Four \subseteq DOMAIN e
    /\ e.format = << >>
    /\ e.stage = << >>
    /\ e.veto = << >>
    /\ e.maps = << >>

\* C3: the failed fetch of a URL stops nothing: the run never ends in a raise
\* on that URL, and when the run is done every URL of the dataset has been
\* requested, the output has one entry per input entry, and each entry whose
\* URL's fetch failed has format "", stage "", veto [] and maps [].
C3_FailedFetchGivesEmptyRecord ==
    /\ \A u \in DOMAIN fetched :
          fetched[u] \in FetchFailures =>
              /\ pc \notin {"key_error", "raised"} => u \in DOMAIN scraped_data
              /\ u \in DOMAIN scraped_data => scraped_data[u] = EmptyRecord(u)
    /\ pc = "done" =>
          /\ output # None
          /\ Len(output[1]) = Len(file.content)
          /\ { file.content[i].url : i \in DOMAIN file.content } = DOMAIN fetched
          /\ \A i \in DOMAIN file.content :
                /\ output[1][i].url = file.content[i].url
                /\ fetched[file.content[i].url] \in FetchFailures
                      => EmptyFields(output[1][i])

\* one URL's fetch failed after the other's page was scraped, or before; the
\* failed URL's entry had fields of an earlier run, now empty
C3_Witness ==
    /\ pc = "done"
    /\ Len(output[1]) = 2
    /\ fetched[output[1][1].url] \in FetchFailures
    /\ "format" \in DOMAIN file.content[1]
    /\ EmptyFields(output[1][1])
    /\ fetched[output[1][2].url] = "ok"
    /\ output[1][2].format # << >>

\* C8: when results.json is missing or is not JSON, no page is requested,
\* nothing is merged and updated_results.json is not written.
C8_DatasetFaultHalts ==
    file.state # "ok" =>
        /\ pc \in {"load", "halted"}
        /\ fetched = << >>
        /\ merges = 0
        /\ output = None
        /\ results_data = << >>

C8_Witness == pc = "halted" /\ file.state = "corrupt"

(***************************************************************************)
(* Properties of the update loop (checked under SpecMerge)                 *)
(***************************************************************************)
\* C7: the update loop keeps the number and order of the entries, each
\* entry's url and every field other than format, stage, veto and maps; an
\* entry whose URL has no scraped record is unchanged; the entries of a URL
\* that has one all get its four values; and what is saved is that list.
C7_MergeFrame ==
    /\ merges >= 1 =>
          /\ Len(results_data) = Len(file.content)
          /\ \A i \in DOMAIN file.content :
                LET old == file.content[i]
                    new == results_data[i]
                IN  /\ new.url = old.url
                    /\ \A k \in DOMAIN old \ Four : k \in DOMAIN new /\ new[k] = old[k]
                    /\ old.url \notin DOMAIN scraped_data => new = old
                    /\ old.url \in DOMAIN scraped_data =>
                          /\ DOMAIN new = DOMAIN old \cup Four
                          /\ \A k \in Four : new[k] = scraped_data[old.url][k]
    /\ output # None => output[1] = results_data /\ merges >= 1

\* two entries of one URL, different in another field, one with earlier
\* values, both updated from a non-empty scraped record and saved
C7_Witness ==
    /\ pc = "done"
    /\ Len(file.content) = 2
    /\ file.content[1].url = file.content[2].url
    /\ file.content[1].event # file.content[2].event
    /\ "format" \in DOMAIN file.content[2]
    /\ file.content[1].url \in DOMAIN scraped_data
    /\ output[1][1].format = << "bo3" >>
    /\ output[1][2].format = << "bo3" >>

\* C9: running the update loop again with the same scraped records leaves the
\* dataset as the first run left it.
C9_MergeIdempotent ==
    [][ (merges >= 1 /\ merges' = merges + 1) => results_data' = results_data ]_vars

\* the loop has run twice and the first run changed the dataset
C9_Witness ==
    /\ merges >= 2
    /\ results_data # file.content
    /\ \E i \in DOMAIN file.content : "veto" \in DOMAIN file.content[i]

====
